---- MODULE Spec2Model ----
(***************************************************************************)
(* MoModbus (src/momodbus.py): a Modbus command line tool with three       *)
(* commands.  `slave` builds a server context of four data blocks, may     *)
(* start a daemon thread that rewrites coils and holding registers once a  *)
(* second, and serves requests.  `read` and `write` connect a client and   *)
(* dispatch one request, or one request per tick of a sampling loop.       *)
(*                                                                         *)
(* One behaviour of the model is one run of one command.  The peer (the    *)
(* remote slave for read/write, the remote masters for slave) and the      *)
(* operator (Ctrl+C) are the environment.                                  *)
(***************************************************************************)
EXTENDS Integers, Sequences, FiniteSets, TLC

\* ------------------------------------------------------------------ bounds
\* Capacity (--coils, --holding-registers) of the two banks the update thread
\* writes; the two read-only banks have one cell.
MaxCap == 2
\* Number of dispatches a sampling loop is followed for.
MaxTicks == 3
\* Longest time one read_data/write_data call takes, in tenths of a second.
MaxDuration == 1

\* ------------------------------------------------------- program constants
\* Upper limit of a register value (lines 140, 297).
MaxRegister == 65535
\* Unit id the server context is built with (line 82).
ContextUnit == 1
\* Address of every data block, ModbusSequentialDataBlock(1, ...) (lines 68-71).
BlockAddress == 1

None == "None"

Min(a, b) == IF a < b THEN a ELSE b
Max(a, b) == IF a > b THEN a ELSE b

\* Python truthiness of a string option (None and "" are false) and of a
\* number option (0 is false).
TruthyStr(v) == v # None /\ v # ""

TruthyInt(v) == v # 0

\* ---------------------------------------------------------- random values
\* random.choice([True, False])
random_choice == BOOLEAN

\* A generator that may overshoot its upper end by one.
randintOpen(a, b) == {v \in {a, b + 1} : a <= v /\ v <= b + 1}

\* random.randint(a, b): any integer of a..b (empty range: no value).  The
\* model follows the two ends of the range.
randint(a, b) == {v \in {a, b} : a <= v /\ v <= b}

\* [f() for _ in range(n)]: every list of n values of S (n <= 0: the empty list).
ListOf(S, n) == IF n <= 0 THEN {<< >>} ELSE [1..n -> S]

\* ------------------------------------------------------------- data blocks
\* A data block is the Python list `values` of a ModbusSequentialDataBlock
\* whose address is BlockAddress; list index k is element k+1 of the sequence.

\* list[a:b] for 0 <= a, b
PySlice(L, a, b) == SubSeq(L, Min(a, Len(L)) + 1, Min(b, Len(L)))

\* list[a:b] = V for 0 <= a, b : the list may grow or shrink
PySliceAssign(L, a, b, V) ==
    LET n  == Len(L)
        a1 == Min(a, n)
        b1 == Min(Max(b, a1), n)
    IN  SubSeq(L, 1, a1) \o V \o SubSeq(L, b1 + 1, n)

\* ModbusSequentialDataBlock.validate(address, count)
validate(block, address, count) ==
    /\ BlockAddress <= address
    /\ BlockAddress + Len(block) >= address + count

\* A read that takes the address for the list index.
getValuesNoOffset(block, address, count) ==
    PySlice(block, address, address + count)

\* ModbusSequentialDataBlock.getValues(address, count)
getValues(block, address, count) ==
    PySlice(block, address - BlockAddress, address - BlockAddress + count)

\* A write that stores only the first value of the batch.
setValuesFirstOnly(block, address, values) ==
    PySliceAssign(block, address - BlockAddress,
                  address - BlockAddress + Min(1, Len(values)),
                  SubSeq(values, 1, Min(1, Len(values))))

\* ModbusSequentialDataBlock.setValues(address, values): one slice assignment
setValues(block, address, values) ==
    PySliceAssign(block, address - BlockAddress,
                  address - BlockAddress + Len(values), values)

\* A decode that sends the register function codes to the input registers.
decodeNoHolding(fx) ==
    CASE fx \in {2}         -> "d"
      [] fx \in {1, 5, 15}  -> "c"
      [] OTHER              -> "i"

\* ModbusSlaveContext.decode(fx): the bank a function code acts on
decode(fx) ==
    CASE fx \in {2}         -> "d"
      [] fx \in {1, 5, 15}  -> "c"
      [] fx \in {4}         -> "i"
      [] OTHER              -> "h"

\* ModbusSlaveContext(di, co, hr, ir) keeps zero_mode off: every address is
\* moved up by one before it reaches the block.
StoreValidate(store, fx, address, count) ==
    validate(store[decode(fx)], address + 1, count)

StoreGetValues(store, fx, address, count) ==
    getValues(store[decode(fx)], address + 1, count)

StoreSetValues(store, fx, address, values) ==
    [store EXCEPT ![decode(fx)] = setValues(@, address + 1, values)]

\* ------------------------------------------------------------------- state
VARIABLES
    command,     \* "read", "write" or "slave": the click command that runs
    args,        \* the command's options, by their parameter names
    pc,          \* where the main thread is
    exit_code,   \* None while the process runs, then its exit status
    client,      \* read/write: "none", "created", "connected", "closed"
    closes,      \* read/write: number of client.close() calls
    ticks,       \* read/write: number of read_data/write_data calls
    sent,        \* read/write: number of requests handed to the transport
    last,        \* read/write: what the last read_data/write_data call did
    raised,      \* read/write: the exception that is leaving the try block
    now,         \* read/write: tenths of a second since the try block was entered
    context,     \* slave: ModbusServerContext.slaves, unit id -> store
    server,      \* slave: "none", "listening", "stopped"
    u_pc,        \* slave: where the update thread is ("off": never started)
    registers,   \* slave: the update thread's local list `registers`
    u_last,      \* history: how the tick before the update thread's sleep ended
    response,    \* slave: the response the server sent in the last step
    committed,   \* history: the four banks as whole writes leave them
    generated    \* history: the random values the last step generated

vars == << command, args, pc, exit_code, client, closes, ticks, sent, last,
           raised, now, context, server, u_pc, registers, u_last, response, committed,
           generated >>

masterVars == << client, closes, ticks, sent, last, raised, now >>

slaveVars == << context, server, u_pc, registers, u_last, committed >>

NoLast == [call |-> None, outcome |-> None, values |-> << >>, report |-> None]

NoResponse == [status |-> None, kind |-> None, values |-> << >>,
               expected |-> << >>]

NoGenerated == [path |-> None, bits |-> << >>, regs |-> << >>]

\* A step that sends no response and generates no random value.
Quiet == response' = NoResponse /\ generated' = NoGenerated

\* The options every command takes, with the defaults of the other commands'.
DefaultArgs ==
    [protocol |-> "rtu", port |-> None, baudrate |-> 9600, host |-> "localhost",
     tcp_port |-> 502, unit_id |-> 1, function_code |-> 3, address |-> 1,
     count |-> 1, random_values |-> FALSE, sampling_rate |-> 0,
     coils |-> 1, discrete_inputs |-> 1, holding_registers |-> 1,
     input_registers |-> 1, random_init |-> FALSE,
     max_register_value |-> MaxRegister, random_update |-> FALSE]

\* ------------------------------------------------------------ slave command
\* The option sets a slave run starts from: every combination of unit id,
\* --max-register-value and of --random-init or --random-update (one of the
\* two at a time) over TCP and over RTU without a serial port, and RTU with a
\* serial port for the plain server.
SlaveArgs ==
    { [DefaultArgs EXCEPT !.protocol = p, !.host = "0.0.0.0", !.unit_id = u,
                          !.coils = MaxCap, !.holding_registers = MaxCap,
                          !.random_init = r[1], !.max_register_value = m,
                          !.random_update = r[2]] :
        p \in {"rtu", "tcp"}, u \in {1, 2},
        r \in {<<FALSE, FALSE>>, <<TRUE, FALSE>>, <<FALSE, TRUE>>},
        m \in {-1, 0, MaxRegister, MaxRegister + 1} }
    \cup
    { [DefaultArgs EXCEPT !.protocol = "rtu", !.port = "/dev/ttyS0",
                          !.host = "0.0.0.0",
                          !.coils = MaxCap, !.holding_registers = MaxCap] }

InitCommon ==
    /\ exit_code = None
    /\ client = "none" /\ closes = 0 /\ ticks = 0 /\ sent = 0 /\ last = NoLast
    /\ raised = None /\ now = 0
    /\ context = << >> /\ server = "none" /\ u_pc = "off"
    /\ registers = << >> /\ u_last = None /\ response = NoResponse
    /\ committed = << >>
    /\ generated = NoGenerated

InitSlave ==
    /\ command = "slave"
    /\ args \in SlaveArgs
    /\ pc = "validate"
    /\ InitCommon

\* Line 297: the values of --max-register-value the slave refuses.
InvalidMaxRegisterValueUpperOnly(v) == v > MaxRegister

InvalidMaxRegisterValue(v) == v < 0 \/ v > MaxRegister

\* Lines 297-298.  click ends the process with status 2 on a UsageError.
SlaveValidate ==
    /\ command = "slave" /\ pc = "validate"
    /\ IF InvalidMaxRegisterValue(args.max_register_value)
         THEN pc' = "exit" /\ exit_code' = 2
         ELSE pc' = "context" /\ exit_code' = exit_code
    /\ Quiet
    /\ UNCHANGED << command, args, masterVars, slaveVars >>

\* Lines 68-71: the lists a block may be created with.
InitialBits(n, random_init) ==
    IF random_init THEN ListOf(random_choice, n) ELSE {[k \in 1..n |-> FALSE]}

InitialRegisters(n, random_init, max_register_value) ==
    IF random_init THEN ListOf(randint(0, max_register_value), n)
                   ELSE {[k \in 1..n |-> 0]}

\* Lines 66-84: the server contexts initialize_server_context may return.
initialize_server_context(coils, discrete_inputs, holding_registers, input_registers, random_init, max_register_value) ==
    { [u \in {ContextUnit} |-> [c |-> co, d |-> di, h |-> hr, i |-> ir]] :
        co \in InitialBits(coils, random_init),
        di \in InitialBits(discrete_inputs, random_init),
        hr \in InitialRegisters(holding_registers, random_init, max_register_value),
        ir \in InitialRegisters(input_registers, random_init, max_register_value) }

\* Line 300.
SlaveInitContext ==
    /\ command = "slave" /\ pc = "context"
    /\ \E ctx \in initialize_server_context(
                    args.coils, args.discrete_inputs, args.holding_registers,
                    args.input_registers, args.random_init,
                    args.max_register_value) :
         /\ context' = ctx
         /\ committed' = ctx[ContextUnit]
         /\ generated' =
              IF args.random_init
              THEN [path |-> "init",
                    bits |-> ctx[ContextUnit].c \o ctx[ContextUnit].d,
                    regs |-> ctx[ContextUnit].h \o ctx[ContextUnit].i]
              ELSE NoGenerated
    /\ pc' = "thread"
    /\ response' = NoResponse
    /\ UNCHANGED << command, args, exit_code, masterVars, server, u_pc,
                    registers, u_last >>

\* Lines 303-310: the daemon thread starts when --random-update is given.
SlaveStartThread ==
    /\ command = "slave" /\ pc = "thread"
    /\ u_pc' = IF args.random_update THEN "coils" ELSE u_pc
    /\ pc' = "start"
    /\ Quiet
    /\ UNCHANGED << command, args, exit_code, masterVars, context, server,
                    registers, u_last, committed >>

\* Line 314 (and line 23): the RTU options that raise UsageError.
RtuOptionsMissing(port, baudrate) == ~TruthyStr(port) \/ ~TruthyInt(baudrate)

\* Lines 312-338.  The UsageError of line 315 is raised inside the try block
\* and `except Exception` takes it: the command returns and the process ends
\* with status 0.  Otherwise the server listens, or fails to (an Exception of
\* Start*Server, taken by the same handler).
SlaveStartServer ==
    /\ command = "slave" /\ pc = "start"
    /\ IF args.protocol = "rtu" /\ RtuOptionsMissing(args.port, args.baudrate)
         THEN pc' = "exit" /\ exit_code' = 0 /\ server' = server
         ELSE \E bound \in BOOLEAN :
                IF bound
                THEN pc' = "serving" /\ exit_code' = exit_code
                     /\ server' = "listening"
                ELSE pc' = "exit" /\ exit_code' = 0 /\ server' = server
    /\ Quiet
    /\ UNCHANGED << command, args, masterVars, context, u_pc, registers,
                    u_last, committed >>

\* Lines 333-338: Ctrl+C or a server error ends Start*Server; both handlers
\* report and the command returns.
SlaveStop ==
    /\ command = "slave" /\ pc = "serving"
    /\ pc' = "exit" /\ exit_code' = 0 /\ server' = "stopped"
    /\ Quiet
    /\ UNCHANGED << command, args, masterVars, context, u_pc, registers,
                    u_last, committed >>

\* ------------------------------------------------------------ update thread
\* History: the list a whole write of vals at list index start leaves.
WholeWrite(old, start, vals) ==
    [k \in 1..Max(Len(old), start + Len(vals)) |->
        IF k > start /\ k <= start + Len(vals) THEN vals[k - start] ELSE old[k]]

\* The thread runs while the process does (daemon=True, line 307).
UpdaterRuns == u_pc # "off" /\ pc # "exit"

\* ModbusServerContext.__getitem__: context[unit_id] raises NoSuchSlaveException
\* for a unit id that is not among the slaves.
HasUnit(ctx, unit_id) == unit_id \in DOMAIN ctx

\* Lines 48-50.  `fault` is an Exception raised by the library call.
UpdateCoils ==
    /\ UpdaterRuns /\ u_pc = "coils"
    /\ \E coils \in ListOf(random_choice, args.coils), fault \in BOOLEAN :
         /\ generated' = [path |-> "updater", bits |-> coils, regs |-> << >>]
         /\ IF fault \/ ~HasUnit(context, args.unit_id)
              THEN u_pc' = "except" /\ UNCHANGED << context, committed >>
              ELSE /\ context' = [context EXCEPT ![args.unit_id] =
                                      StoreSetValues(@, 1, 1, coils)]
                   /\ committed' = [committed EXCEPT !.c = WholeWrite(@, 1, coils)]
                   /\ u_pc' = "registers"
    /\ u_last' = None
    /\ response' = NoResponse
    /\ UNCHANGED << command, args, pc, exit_code, masterVars, server, registers >>

\* Lines 53-54.
UpdateRegisters ==
    /\ UpdaterRuns /\ u_pc = "registers"
    /\ \E regs \in ListOf(randint(0, args.max_register_value),
                           args.holding_registers), fault \in BOOLEAN :
         /\ generated' = [path |-> "updater", bits |-> << >>, regs |-> regs]
         /\ IF fault \/ ~HasUnit(context, args.unit_id)
              THEN /\ u_pc' = "except" /\ registers' = << >>
                   /\ UNCHANGED << context, committed >>
              ELSE /\ registers' = regs
                   /\ context' = [context EXCEPT ![args.unit_id] =
                                      StoreSetValues(@, 3, 1, regs)]
                   /\ committed' = [committed EXCEPT !.h = WholeWrite(@, 1, regs)]
                   /\ u_pc' = "readback"
    /\ response' = NoResponse
    /\ UNCHANGED << command, args, pc, exit_code, masterVars, server, u_last >>

\* Lines 56-58: the read-back of holding register 1 and the two log lines.
\* [0] of an empty list raises IndexError.
UpdateReadBack ==
    /\ UpdaterRuns /\ u_pc = "readback"
    /\ \E fault \in BOOLEAN :
         IF \/ fault
            \/ ~HasUnit(context, args.unit_id)
            \/ StoreGetValues(context[args.unit_id], 3, 1, 1) = << >>
            \/ registers = << >>
         THEN u_pc' = "except" /\ registers' = << >> /\ u_last' = u_last
         ELSE u_pc' = "sleep" /\ u_last' = "ok" /\ registers' = << >>
    /\ Quiet
    /\ UNCHANGED << command, args, pc, exit_code, masterVars, context, server,
                    committed >>

\* Lines 61-63: where the thread goes once the handler has logged the error.
AfterErrorDies == "dead"

AfterError == "sleep"

\* Lines 61-62: `except Exception` logs the error.
UpdateExcept ==
    /\ UpdaterRuns /\ u_pc = "except"
    /\ u_pc' = AfterError
    /\ u_last' = "error"
    /\ Quiet
    /\ UNCHANGED << command, args, pc, exit_code, masterVars, context, server,
                    registers, committed >>

\* Lines 60 and 63, then line 45: the sleep ends and the next tick begins.
UpdateWake ==
    /\ UpdaterRuns /\ u_pc = "sleep"
    /\ u_pc' = "coils"
    /\ Quiet
    /\ UNCHANGED << command, args, pc, exit_code, masterVars, context, server,
                    registers, u_last, committed >>

\* ------------------------------------------------------- requests served
\* Start*Server (lines 318, 329) hands the context to the library's server,
\* which executes each request of a remote master against it: the unit is
\* looked up, the count and the address range are checked, then the block is
\* read or written with one getValues/setValues call.

\* What a remote master may ask for: a start address and a count of unit 1,
\* or anything of unit 2 (which the context does not hold).
Addresses == 0..MaxCap

Counts == {0, 1, MaxCap}

Targets ==
    { [unit |-> 1, address |-> a] : a \in Addresses } \cup
    { [unit |-> 2, address |-> 0] }

\* Bits (coils, discrete inputs) or registers: what a function code carries.
Kind(fx) == IF decode(fx) \in {"c", "d"} THEN "bits" ELSE "registers"

WireValues(fx) == IF decode(fx) = "c" THEN BOOLEAN ELSE {0, MaxRegister}

\* History: the cells address .. address+count-1 of a bank, cell by cell.
Cells(bank, address, count) == [k \in 1..count |-> bank[address + k]]

RequestStatus(ctx, unit, fx, address, count) ==
    IF ~HasUnit(ctx, unit) THEN "NoSuchSlave"
    ELSE IF count < 1 THEN "IllegalValue"
    ELSE IF ~StoreValidate(ctx[unit], fx, address, count) THEN "IllegalAddress"
    ELSE "ok"

\* Function codes 1 to 4.
ServeRead ==
    /\ command = "slave" /\ pc = "serving"
    /\ \E t \in Targets, fx \in {1, 2, 3, 4}, count \in Counts :
         LET unit    == t.unit
             address == t.address
             status  == RequestStatus(context, unit, fx, address, count) IN
         response' =
            [status |-> status, kind |-> Kind(fx),
             values |-> IF status = "ok"
                        THEN StoreGetValues(context[unit], fx, address, count)
                        ELSE << >>,
             expected |-> IF status = "ok"
                          THEN Cells(committed[decode(fx)], address, count)
                          ELSE << >>]
    /\ generated' = NoGenerated
    /\ UNCHANGED << command, args, pc, exit_code, masterVars, context, server,
                    u_pc, registers, u_last, committed >>

\* Function codes 5, 6 (one value) and 15, 16 (a list of values).
ServeWrite ==
    /\ command = "slave" /\ pc = "serving"
    /\ \E t \in Targets, fx \in {5, 6, 15, 16} :
         \E values \in ListOf(WireValues(fx), IF fx \in {5, 6} THEN 1 ELSE MaxCap) :
           LET unit    == t.unit
               address == t.address
               status  == RequestStatus(context, unit, fx, address, Len(values)) IN
           /\ response' =
                [status |-> status, kind |-> Kind(fx), values |-> << >>,
                 expected |-> << >>]
           /\ IF status = "ok"
                THEN /\ context' = [context EXCEPT ![unit] =
                                        StoreSetValues(@, fx, address, values)]
                     /\ committed' = [committed EXCEPT ![decode(fx)] =
                                          WholeWrite(@, address, values)]
                ELSE UNCHANGED << context, committed >>
    /\ generated' = NoGenerated
    /\ UNCHANGED << command, args, pc, exit_code, masterVars, server, u_pc,
                    registers, u_last >>

NextSlave ==
    \/ SlaveValidate
    \/ SlaveInitContext
    \/ SlaveStartThread
    \/ SlaveStartServer
    \/ SlaveStop
    \/ UpdateCoils
    \/ UpdateRegisters
    \/ UpdateReadBack
    \/ UpdateExcept
    \/ UpdateWake
    \/ ServeRead
    \/ ServeWrite

SpecSlave == InitSlave /\ [][NextSlave]_vars

\* --------------------------------------------------- read and write commands
\* Lines 21-41: the options for which initialize_client raises UsageError.
initialize_client_raises(protocol, port, baudrate, host, tcp_port) ==
    IF protocol = "rtu" THEN ~TruthyStr(port) \/ ~TruthyInt(baudrate)
    ELSE IF protocol = "tcp" THEN ~TruthyStr(host) \/ ~TruthyInt(tcp_port)
    ELSE TRUE

\* What the transport call of one dispatch may do: return a normal response,
\* return an error response (result.isError()), raise a ModbusException
\* (ConnectionException, ModbusIOException), raise another Exception, or be
\* cut short by Ctrl+C.
Outcomes == {"ok", "error", "ModbusException", "Exception", "KeyboardInterrupt"}

\* A dispatch whose handler lets a ModbusException through.
AfterCallNoHandler(call, outcome, values) ==
    [call |-> call, outcome |-> outcome, values |-> values,
     raised |-> IF outcome \in {"ModbusException", "Exception", "KeyboardInterrupt"}
                THEN outcome ELSE None,
     report |-> CASE outcome = "ok"    -> "values"
                  [] outcome = "error" -> "Error"
                  [] OTHER             -> None]

\* Lines 104-114 and 160-169: what a dispatch does with the transport's answer.
\* A ModbusException is caught and reported; anything else leaves the function.
AfterCall(call, outcome, values) ==
    [call |-> call, outcome |-> outcome, values |-> values,
     raised |-> IF outcome \in {"Exception", "KeyboardInterrupt"}
                THEN outcome ELSE None,
     report |-> CASE outcome = "ok"              -> "values"
                  [] outcome = "error"           -> "Error"
                  [] outcome = "ModbusException" -> "Modbus error"
                  [] OTHER                       -> None]

\* A dispatch that raises click.UsageError before any transport call.
Usage(values) ==
    [call |-> None, outcome |-> None, values |-> values,
     raised |-> "UsageError", report |-> None]

\* A read dispatch whose last branch takes every remaining function code.
read_dataNoElse(function_code, outcome) ==
    CASE function_code = 1 -> AfterCall("read_coils", outcome, << >>)
      [] function_code = 2 -> AfterCall("read_discrete_inputs", outcome, << >>)
      [] function_code = 3 -> AfterCall("read_holding_registers", outcome, << >>)
      [] OTHER             -> AfterCall("read_input_registers", outcome, << >>)

\* Lines 87-114.
read_data(function_code, outcome) ==
    CASE function_code = 1 -> AfterCall("read_coils", outcome, << >>)
      [] function_code = 2 -> AfterCall("read_discrete_inputs", outcome, << >>)
      [] function_code = 3 -> AfterCall("read_holding_registers", outcome, << >>)
      [] function_code = 4 -> AfterCall("read_input_registers", outcome, << >>)
      [] OTHER             -> Usage(<< >>)

\* Lines 129-131 and 145-147 without the check of function code 6.
SingleWriteRejectsCoilOnly(function_code, count) ==
    function_code = 5 /\ count # 1

\* Lines 129-131 and 145-147: function codes 5 and 6 take count = 1 only.
SingleWriteRejects(function_code, count) ==
    function_code \in {5, 6} /\ count # 1

\* Lines 120-127 and 139-143: the value lists write_data may build, random
\* (--random-values) or typed in by the operator.
WrittenValues(function_code, count, random_values) ==
    IF function_code \in {5, 15}
    THEN ListOf(random_choice, count)
    ELSE IF random_values THEN ListOf(randint(0, 65535), count)
                          ELSE ListOf({0, MaxRegister}, count)

\* Lines 117-169.
write_data(function_code, count, values, outcome) ==
    IF function_code \notin {5, 6, 15, 16} THEN Usage(<< >>)
    ELSE IF SingleWriteRejects(function_code, count) THEN Usage(values)
    ELSE CASE function_code = 5  -> AfterCall("write_coil", outcome, values)
           [] function_code = 15 -> AfterCall("write_coils", outcome, values)
           [] function_code = 6  -> AfterCall("write_register", outcome, values)
           [] function_code = 16 -> AfterCall("write_registers", outcome, values)

\* The option sets a read or write run starts from.  max_register_value is
\* not an option of these commands: it is the bound the slave they talk to
\* was started with.
Connections ==
    { [protocol |-> "rtu", port |-> None],
      [protocol |-> "rtu", port |-> "/dev/ttyS0"],
      [protocol |-> "tcp", port |-> None] }

MasterArgs(cmd) ==
    { [DefaultArgs EXCEPT !.protocol = c.protocol, !.port = c.port,
                          !.function_code = fc, !.count = n,
                          !.random_values = rv, !.sampling_rate = hz,
                          !.max_register_value = m] :
        c \in Connections,
        fc \in IF cmd = "read" THEN {1, 2, 3, 4, 5, 7} ELSE {3, 5, 6, 7, 15, 16},
        n \in {0, 1, 2},
        rv \in IF cmd = "read" THEN {FALSE} ELSE BOOLEAN,
        hz \in {0, 2},
        m \in IF cmd = "read" THEN {MaxRegister} ELSE {0, MaxRegister} }

InitMaster ==
    /\ command \in {"read", "write"}
    /\ args \in MasterArgs(command)
    /\ pc = "client"
    /\ InitCommon

\* Lines 205 and 253.  The UsageError is raised outside the try block: click
\* ends the process with status 2.
MasterInitClient ==
    /\ command \in {"read", "write"} /\ pc = "client"
    /\ IF initialize_client_raises(args.protocol, args.port, args.baudrate,
                                   args.host, args.tcp_port)
         THEN pc' = "exit" /\ exit_code' = 2 /\ client' = client
         ELSE pc' = "connect" /\ exit_code' = exit_code /\ client' = "created"
    /\ Quiet
    /\ UNCHANGED << command, args, closes, ticks, sent, last, raised, now,
                    slaveVars >>

\* A command that goes on to its dispatch whatever connect() returned.
AfterConnectUnchecked(connected) == "dispatch"

\* Lines 206 and 254: `if not client.connect(): ... return`.
AfterConnect(connected) == IF connected THEN "dispatch" ELSE "exit"

\* Lines 206-209 and 254-257: a failed connect is reported and the command
\* returns.
MasterConnect ==
    /\ command \in {"read", "write"} /\ pc = "connect"
    /\ \E connected \in BOOLEAN :
         /\ pc' = AfterConnect(connected)
         /\ client' = IF connected THEN "connected" ELSE client
         /\ last' = IF connected THEN last
                    ELSE [NoLast EXCEPT !.report = "Failed to connect"]
    /\ exit_code' = IF pc' = "exit" THEN 0 ELSE exit_code
    /\ Quiet
    /\ UNCHANGED << command, args, closes, ticks, sent, raised, now, slaveVars >>

\* A loop that also ends when a dispatch reported an error.
AfterDispatchStopsOnError(result, sampling_rate) ==
    IF result.raised # None \/ sampling_rate <= 0 \/ result.report = "Error"
    THEN "finally" ELSE "sleep"

\* A command without the finally block: an exception ends it at once.
AfterDispatchNoFinally(result, sampling_rate) ==
    IF result.raised \in {"UsageError", "Exception"} THEN "exit"
    ELSE IF result.raised # None \/ sampling_rate <= 0 THEN "finally"
    ELSE "sleep"

\* Lines 211-230 and 259-272: where the command goes after a dispatch: out of
\* the try block when the dispatch raised or --sampling-rate is 0 or less,
\* else to time.sleep.
AfterDispatch(result, sampling_rate) ==
    IF result.raised # None \/ sampling_rate <= 0 THEN "finally" ELSE "sleep"

\* The time one read_data/write_data call may take: none to speak of, up to
\* MaxDuration tenths of a second (the client's timeout is 1 second, line 28).
Durations == 0..MaxDuration

\* A loop that does not sleep between two dispatches.
IntervalNoSleep(sampling_rate) == 0

\* Lines 216 and 260: interval = 1.0 / sampling_rate, in tenths of a second.
Interval(sampling_rate) == 10 \div sampling_rate

\* A dispatch that sends its request a second time after an error response.
RequestsWithRetry(result) ==
    IF result.call = None THEN 0
    ELSE IF result.outcome = "error" THEN 2 ELSE 1

\* Lines 91-100 and 133-155: the requests one read_data/write_data call hands
\* to the transport: the one client call of its branch, or none when the
\* UsageError came first.
Requests(result) == IF result.call = None THEN 0 ELSE 1

\* Lines 213 and 221: one read_data call.
ReadTick ==
    /\ command = "read" /\ pc = "dispatch" /\ ticks < MaxTicks
    /\ \E d \in Durations : now' = now + d
    /\ \E outcome \in Outcomes :
         LET r == read_data(args.function_code, outcome) IN
         /\ last' = [call |-> r.call, outcome |-> r.outcome,
                      values |-> r.values, report |-> r.report]
         /\ raised' = r.raised
         /\ sent' = sent + Requests(r)
         /\ pc' = AfterDispatch(r, args.sampling_rate)
    /\ ticks' = ticks + 1
    /\ Quiet
    /\ UNCHANGED << command, args, exit_code, client, closes, slaveVars >>

\* Lines 261 and 266: one write_data call.
WriteTick ==
    /\ command = "write" /\ pc = "dispatch" /\ ticks < MaxTicks
    /\ \E d \in Durations : now' = now + d
    /\ \E outcome \in Outcomes,
          values \in WrittenValues(args.function_code, args.count,
                                   args.random_values) :
         LET r == write_data(args.function_code, args.count, values, outcome) IN
         /\ last' = [call |-> r.call, outcome |-> r.outcome,
                      values |-> r.values, report |-> r.report]
         /\ raised' = r.raised
         /\ sent' = sent + Requests(r)
         /\ pc' = AfterDispatch(r, args.sampling_rate)
         /\ generated' =
              IF args.random_values /\ args.function_code \in {5, 6, 15, 16}
              THEN [path |-> "master",
                    bits |-> IF args.function_code \in {5, 15} THEN values ELSE << >>,
                    regs |-> IF args.function_code \in {6, 16} THEN values ELSE << >>]
              ELSE NoGenerated
    /\ ticks' = ticks + 1
    /\ response' = NoResponse
    /\ UNCHANGED << command, args, exit_code, client, closes, slaveVars >>

\* Lines 225 and 267: time.sleep(interval) returns and the loop goes round.
MasterSleep ==
    /\ command \in {"read", "write"} /\ pc = "sleep"
    /\ pc' = "dispatch"
    /\ now' = now + Interval(args.sampling_rate)
    /\ Quiet
    /\ UNCHANGED << command, args, exit_code, client, closes, ticks, sent, last,
                    raised, slaveVars >>

\* Ctrl+C while the command is inside the try block, between two calls: at
\* any moment of the sleep, or right before the next call.
MasterInterrupt ==
    /\ command \in {"read", "write"} /\ pc \in {"dispatch", "sleep"}
    /\ \E e \in 0..(IF pc = "sleep" THEN Interval(args.sampling_rate) ELSE 0) :
         now' = now + e
    /\ raised' = "KeyboardInterrupt"
    /\ pc' = "finally"
    /\ Quiet
    /\ UNCHANGED << command, args, exit_code, client, closes, ticks, sent, last,
                    slaveVars >>

\* The status the process ends with: 0 when the command returns (also after
\* the KeyboardInterrupt handler), 2 for a UsageError, 1 for another exception.
ExitStatus(exc) ==
    CASE exc = "UsageError" -> 2
      [] exc = "Exception"  -> 1
      [] OTHER              -> 0

\* Lines 226-230 and 268-272: the KeyboardInterrupt handler, then finally.
MasterFinally ==
    /\ command \in {"read", "write"} /\ pc = "finally"
    /\ client' = "closed"
    /\ closes' = closes + 1
    /\ exit_code' = ExitStatus(raised)
    /\ pc' = "exit"
    /\ Quiet
    /\ UNCHANGED << command, args, ticks, sent, last, raised, now, slaveVars >>

NextMaster ==
    \/ MasterInitClient
    \/ MasterConnect
    \/ ReadTick
    \/ WriteTick
    \/ MasterSleep
    \/ MasterInterrupt
    \/ MasterFinally

SpecMaster == InitMaster /\ [][NextMaster]_vars

Init == InitSlave \/ InitMaster

Next == NextSlave \/ NextMaster

Spec == Init /\ [][Next]_vars

\* ================================================================= claims

\* C1  A read served while the update thread runs never mixes the cells of a
\* batch write: every read the server answers returns, cell for cell, the
\* content the bank has after whole writes only.
C1_NoTornRead ==
    response.status = "ok" => response.values = response.expected

\* C1 witness: the update thread has just written its batch of holding
\* registers (not all zero) and a read of exactly that range was answered.
C1_Witness ==
    /\ u_pc = "readback"
    /\ \E k \in 1..Len(registers) : registers[k] # 0
    /\ response.status = "ok" /\ response.kind = "registers"
    /\ response.values = registers

\* C2  Writes of the update thread and of a remote master to one bank are
\* applied one whole write after the other, in the order they are executed:
\* the coils and the holding registers are always what the whole writes made
\* so far, applied in that order, leave.
C2_WritesSerialized ==
    context # << >> =>
        /\ context[ContextUnit].c = committed.c
        /\ context[ContextUnit].h = committed.h

\* C2 witness: the update thread has written its batch of holding registers
\* and a master write, served in the last step, has since replaced every cell
\* of that batch.
C2_Witness ==
    /\ u_pc = "readback"
    /\ response.status = "ok" /\ response.kind = "registers"
    /\ response.values = << >>
    /\ Len(context[ContextUnit].h) = MaxCap + 1
    /\ \A k \in 1..MaxCap : context[ContextUnit].h[k + 1] # registers[k]

\* The first dispatch of a write command is over.
Dispatched == command = "write" /\ ticks > 0

\* C3  A write with function code 5 or 6 and a count other than 1 fails with
\* a usage error (InvalidCardinality) before anything is handed to the
\* transport: no request is ever sent, so no cell of the peer is touched.
C3_SingleWriteCardinality ==
    (command = "write" /\ args.function_code \in {5, 6} /\ args.count # 1) =>
        /\ sent = 0
        /\ last.call = None
        /\ ticks > 0 => raised = "UsageError"

\* C3 witness: function code 6 with count 2 was dispatched and refused.
C3_Witness ==
    /\ Dispatched /\ args.function_code = 6 /\ args.count = 2
    /\ raised = "UsageError" /\ sent = 0

\* One more read_data/write_data call of a sampling loop has just returned
\* or raised.
LoopTick == args.sampling_rate > 0 /\ ticks' = ticks + 1

\* C4 as stated: a request-shape violation raised in a tick of a sampling loop
\* (here the usage error for InvalidCardinality or UnsupportedFunctionCode)
\* leaves the loop running.
C4_Original ==
    (args.sampling_rate > 0 /\ raised = "UsageError") =>
        pc \in {"sleep", "dispatch"}

\* C4 amended: in a sampling loop a violation the peer answers with an error
\* response is reported and the loop goes on to its sleep and next tick; a
\* usage error raised by the dispatch itself ends the loop at that tick, with
\* nothing sent, and the command closes the connection and exits with 2.
C4_Amended ==
    /\ [][LoopTick =>
            /\ last'.outcome = "error" =>
                  (pc' = "sleep" /\ last'.report = "Error" /\ raised' = None)
            /\ raised' = "UsageError" => (pc' = "finally" /\ sent' = sent)]_vars
    /\ []((pc = "exit" /\ raised = "UsageError") =>
             (closes = 1 /\ exit_code = 2))

\* C4 witness: after a tick that ended with an error response the sampling
\* loop has slept and stands at its next dispatch.
C4_Witness ==
    /\ args.sampling_rate > 0 /\ ticks >= 1
    /\ last.outcome = "error" /\ pc = "dispatch"

\* C5 as stated: a sampling loop that met a connection failure in a tick (the
\* client raises it as a ModbusException) has left the loop.
C5_Original ==
    (args.sampling_rate > 0 /\ last.outcome = "ModbusException") =>
        pc \in {"finally", "exit"}

\* C5 amended: a connection failure that reaches the loop as an exception
\* other than a ModbusException ends the loop and the connection is closed;
\* one raised as a ModbusException is reported and the loop keeps ticking.
C5_Amended ==
    /\ [][LoopTick =>
            /\ last'.outcome = "Exception" =>
                  (pc' = "finally" /\ raised' = "Exception")
            /\ last'.outcome = "ModbusException" =>
                  (pc' = "sleep" /\ last'.report = "Modbus error"
                   /\ raised' = None)]_vars
    /\ []((pc = "exit" /\ raised = "Exception") =>
             (client = "closed" /\ closes = 1 /\ exit_code = 1))

\* C5 witness: after a tick that ended with a ModbusException the sampling
\* loop has slept and stands at its next dispatch.
C5_Witness ==
    /\ args.sampling_rate > 0 /\ ticks >= 1
    /\ last.outcome = "ModbusException" /\ pc = "dispatch"

\* The option combinations the commands refuse: RTU without a serial port or
\* baudrate, TCP without host or port (read, write), and for the slave a
\* --max-register-value outside 0..65535.
ConfigurationInvalid ==
    IF command = "slave"
    THEN \/ args.max_register_value < 0
         \/ args.max_register_value > 65535
         \/ (args.protocol = "rtu" /\ args.port = None)
    ELSE \/ (args.protocol = "rtu" /\ args.port = None)
         \/ (args.protocol = "tcp" /\ args.host = None)

\* C6 as stated: with an invalid configuration no command connects, listens
\* or starts the update thread, and the process ends with a non-zero status.
C6_Claim ==
    ConfigurationInvalid =>
        /\ client = "none" /\ server = "none" /\ u_pc = "off"
        /\ pc = "exit" => exit_code # 0

\* C7  A slave started with --max-register-value below 0 or above 65535
\* ends with a usage error (status 2): the server context is never created,
\* the update thread never started, the server never listens.
C7_MaxRegisterValueChecked ==
    (command = "slave" /\ (args.max_register_value < 0
                            \/ args.max_register_value > 65535)) =>
        /\ context = << >> /\ u_pc = "off" /\ server = "none"
        /\ pc \in {"validate", "exit"}
        /\ pc = "exit" => exit_code = 2

\* C7 witness: the slave was started with 65536 and has ended with status 2.
C7_Witness ==
    /\ command = "slave" /\ args.max_register_value = 65536 /\ args.random_update
    /\ pc = "exit" /\ exit_code = 2

InRange(list, lo, hi) == \A k \in 1..Len(list) : lo <= list[k] /\ list[k] <= hi

AllBoolean(list) == \A k \in 1..Len(list) : list[k] \in BOOLEAN

C9_UpdaterSurvives ==
    [][/\ u_pc # "off" =>
            u_pc' \in {"coils", "registers", "readback", "except", "sleep"}
       /\ (u_pc = "except" /\ u_pc' # u_pc) =>
            (u_pc' = "sleep" /\ u_last' = "error")
       /\ (u_pc = "sleep" /\ u_pc' # u_pc) => u_pc' = "coils"]_vars

\* C9 witness: a tick failed for a unit the context holds, the error was
\* reported, the sleep is over and the next tick is starting.
C9_Witness ==
    /\ u_pc = "coils" /\ u_last = "error"
    /\ HasUnit(context, args.unit_id)

\* C10  A read or write command that has connected closes the connection
\* exactly once on every way out, dispatches nothing after the close, and
\* starts no further tick once Ctrl+C has arrived.
C10_ConnectionReleased ==
    /\ [](closes <= 1)
    /\ []((pc = "exit" /\ client \in {"connected", "closed"}) =>
             (client = "closed" /\ closes = 1))
    /\ [][closes >= 1 => (ticks' = ticks /\ sent' = sent)]_vars
    /\ [][raised = "KeyboardInterrupt" => (ticks' = ticks /\ sent' = sent)]_vars

\* C10 witness: a sampling loop that had ticked was interrupted and the
\* command ended with the connection closed once.
C10_Witness ==
    /\ args.sampling_rate > 0 /\ ticks >= 1 /\ raised = "KeyboardInterrupt"
    /\ pc = "exit" /\ client = "closed" /\ closes = 1

\* C11  A dispatch the peer answers with an exception response reports the
\* error, has sent exactly one request (no retry) and raises nothing: a
\* sampling loop goes on to its sleep and next tick, a single call ends.
C11_RemoteErrorReported ==
    /\ [][(ticks' = ticks + 1 /\ last'.outcome = "error") =>
            /\ last'.report = "Error"
            /\ sent' = sent + 1
            /\ raised' = None
            /\ pc' = IF args.sampling_rate > 0 THEN "sleep" ELSE "finally"]_vars
    /\ [](sent <= ticks)

\* C11 witness: the first dispatch of a sampling loop got an exception
\* response; one request was sent and the loop stands at its second dispatch.
C11_Witness ==
    /\ args.sampling_rate > 0 /\ ticks = 1 /\ sent = 1
    /\ last.outcome = "error" /\ last.report = "Error"
    /\ raised = None /\ pc = "dispatch"

\* The operation each function code stands for in the Modbus table.
TableCall(fc) ==
    CASE fc = 1  -> "read_coils"
      [] fc = 2  -> "read_discrete_inputs"
      [] fc = 3  -> "read_holding_registers"
      [] fc = 4  -> "read_input_registers"
      [] fc = 5  -> "write_coil"
      [] fc = 6  -> "write_register"
      [] fc = 15 -> "write_coils"
      [] fc = 16 -> "write_registers"
      [] OTHER   -> None

\* C12  Every request a dispatch sends is the operation of the table for its
\* function code: the read command sends codes 1 to 4, the write command
\* codes 5, 6, 15 and 16 (5 and 6 with count 1).  A dispatch of any other
\* code raises the usage error and sends nothing.
C12_FunctionCodeTable ==
    /\ [](last.call # None => last.call = TableCall(args.function_code))
    /\ [][ticks' = ticks + 1 =>
            /\ (command = "read" /\ args.function_code \in {1, 2, 3, 4}) =>
                  (last'.call = TableCall(args.function_code) /\ sent' = sent + 1)
            /\ (command = "write" /\ args.function_code \in {15, 16}) =>
                  (last'.call = TableCall(args.function_code) /\ sent' = sent + 1)
            /\ (command = "write" /\ args.function_code \in {5, 6}
                 /\ args.count = 1) =>
                  (last'.call = TableCall(args.function_code) /\ sent' = sent + 1)
            /\ TableCall(args.function_code) = None =>
                  (raised' = "UsageError" /\ last'.call = None /\ sent' = sent)]_vars

\* C12 witness: a read command was given function code 7; its dispatch
\* raised the usage error and nothing was sent.
C12_Witness ==
    /\ command = "read" /\ args.function_code = 7 /\ ticks = 1
    /\ raised = "UsageError" /\ last.call = None /\ sent = 0

\* C13 as stated: a read (function codes 1 to 4) or a multiple write (15, 16)
\* with a count below 1 is refused before anything is sent, and no multiple
\* write is sent with an empty list of values.
C13_Claim ==
    /\ (/\ args.count < 1
        /\ \/ command = "read" /\ args.function_code \in {1, 2, 3, 4}
           \/ command = "write" /\ args.function_code \in {15, 16}) =>
          (sent = 0 /\ last.call = None)
    /\ last.call \in {"write_coils", "write_registers"} => last.values # << >>

\* The capacity each bank of the slave is created with.
Capacity ==
    [c |-> args.coils, d |-> args.discrete_inputs,
     h |-> args.holding_registers, i |-> args.input_registers]

\* C14 as stated: a write that reaches past the capacity of its bank (the
\* update thread's batches included) fails and leaves the bank unmodified, so
\* no step changes or creates a cell beyond the capacity of a bank.
C14_Claim ==
    [][context # << >> =>
         \A b \in {"c", "d", "h", "i"} :
           \A k \in 1..Len(context'[ContextUnit][b]) :
             k > Capacity[b] =>
               /\ k <= Len(context[ContextUnit][b])
               /\ context'[ContextUnit][b][k] = context[ContextUnit][b][k]]_vars

\* The write requests of function code fx the server accepts in this state.
AcceptedWrites(fx) ==
    { w \in [address : Addresses,
             values : ListOf(WireValues(fx), 1) \cup ListOf(WireValues(fx), MaxCap)] :
        RequestStatus(context, ContextUnit, fx, w.address, Len(w.values)) = "ok" }

\* C15  In every state of the slave a read of a range right after an accepted
\* write of that range returns the values written (coils, function code 15,
\* and holding registers, 16), and the update thread's read-back of holding
\* register 1 right after its batch returns the first value of the batch.
C15_ReadAfterWrite ==
    context # << >> =>
        /\ \A fx \in {15, 16} : \A w \in AcceptedWrites(fx) :
              StoreGetValues(StoreSetValues(context[ContextUnit], fx, w.address,
                                            w.values),
                             fx, w.address, Len(w.values)) = w.values
        /\ (u_pc = "readback" /\ generated.path = "updater") =>
              StoreGetValues(context[args.unit_id], 3, 1, 1) = << registers[1] >>

\* C15 witness: the update thread has just written a batch whose first value
\* is not the initial 0 and its read-back returns that value, while the
\* server accepts multiple writes of registers.
C15_Witness ==
    /\ u_pc = "readback" /\ generated.path = "updater"
    /\ registers # << >> /\ registers[1] = MaxRegister
    /\ StoreGetValues(context[args.unit_id], 3, 1, 1) = << MaxRegister >>
    /\ \E w \in AcceptedWrites(16) : Len(w.values) = MaxCap

\* The function code that reads each bank.
ReadCode == [c |-> 1, d |-> 2, h |-> 3, i |-> 4]

\* C16 as stated: every bank has as many cells as it was created with, and
\* the single cells a request may name are the cells 1..capacity (the store
\* takes them as addresses 0..capacity-1).
C16_Claim ==
    context # << >> =>
        \A b \in {"c", "d", "h", "i"} :
            /\ Len(context[ContextUnit][b]) = Capacity[b]
            /\ \A a \in 0..(MaxCap + 1) :
                  StoreValidate(context[ContextUnit], ReadCode[b], a, 1)
                      <=> (a + 1 \in 1..Capacity[b])

\* A sampling loop at 2 Hz was cancelled 0.6 s after it started.
CancelledAtSixTenths ==
    /\ args.sampling_rate = 2 /\ raised = "KeyboardInterrupt" /\ now = 6

\* C17 as stated: the loop cancelled 0.6 s after its start has performed
\* exactly one tick, and ends with the connection closed.
C17_Original ==
    CancelledAtSixTenths =>
        /\ ticks = 1
        /\ pc = "exit" => (client = "closed" /\ closes = 1)

\* C17 amended: tick k of a sampling loop never starts before k-1 intervals
\* have passed and the loop sleeps no longer than the interval between two
\* dispatches; at 2 Hz the loop cancelled 0.6 s after its start has done the
\* tick at t=0 and, unless the first dispatch took 0.1 s or longer, a second
\* one 0.5 s after the first returned: 1 or 2 ticks.  It ends with the
\* connection closed once.
C17_Amended ==
    /\ (args.sampling_rate > 0 /\ ticks >= 1) =>
          /\ (ticks - 1) * (10 \div args.sampling_rate) <= now
          /\ now <= ticks * ((10 \div args.sampling_rate) + MaxDuration)
    /\ CancelledAtSixTenths =>
          /\ ticks \in {1, 2}
          /\ pc = "exit" => (client = "closed" /\ closes = 1)

\* C17 witness: the loop at 2 Hz was cancelled at 0.6 s during its second
\* sleep, after the ticks at 0 s and 0.5 s, and ended with the client closed.
C17_Witness ==
    /\ CancelledAtSixTenths /\ ticks = 2
    /\ pc = "exit" /\ client = "closed" /\ closes = 1

\* C18  A read or write command whose connect() failed reports the failure
\* and returns: whatever the sampling rate, it makes no dispatch, sends
\* nothing and never enters the loop.
C18_FailedConnectExits ==
    (client = "created" /\ pc # "connect") =>
        /\ pc = "exit" /\ exit_code = 0
        /\ last.report = "Failed to connect"
        /\ ticks = 0 /\ sent = 0 /\ now = 0 /\ raised = None

\* C18 witness: a command with a sampling rate of 2 Hz failed to connect and
\* has ended without a dispatch.
C18_Witness ==
    /\ args.sampling_rate = 2 /\ client = "created" /\ pc = "exit"
    /\ last.report = "Failed to connect" /\ ticks = 0 /\ sent = 0

C20_Claim ==
    context # << >> => HasUnit(context, args.unit_id)

====
